---------------------------- MODULE Spec2Model ----------------------------
(***************************************************************************)
(* Model of the rover ground-station core:                                 *)
(*   - MainController (src/mission_control/maincontroller.cpp): the data   *)
(*     recording handshake with its watchdog timer, the dispatch of the    *)
(*     messages received on the main channel, the settings and audio       *)
(*     handlers;                                                           *)
(*   - VideoStreamer (src/video_streamer/videostreamer.cpp): the child     *)
(*     process that owns one GStreamer pipeline and reports to its parent  *)
(*     over D-Bus.                                                         *)
(* Each handler is a pure operator from the object's state (a record) to   *)
(* the state it leaves; an action applies one handler to the variables.    *)
(***************************************************************************)
EXTENDS Integers, Sequences, FiniteSets, TLC

VARIABLES
    \* ---- MainController ----
    isRecording,        \* _dataRecorder->isRecording()
    controlState,       \* recording state shown by _controlWindow
    commentsState,      \* recording state shown by _commentsWindow
    mainState,          \* recording state shown by _mainWindow
    mbedStatus,         \* _controlWindow->setMbedStatus(...)
    recordStartTime,    \* _recordStartTime
    recorderStart,      \* <<start time given to the latest _dataRecorder->startLog>>, <<>> before any
    started,            \* the startup lambda of init() has run through
    exitCode,           \* code the controller process has exited with (0: it has not)
    quit,               \* QApplication::quit() has been called: the event loop has ended
    sent,               \* messages handed to _mainChannel->sendMessage, in order
    notes,              \* _controlWindow->notify(...) calls, in order
    watchdogs,          \* pending QTimer::singleShot(5000, ...) watchdogs
    forwarded,          \* data handed to the GPS / sensor collaborators, in order
    settings,           \* _settings: enableVideo, enableAudio, usable default audio format
    audioPlayer,        \* _audioPlayer: whether it plays, and from which address
    log,                \* observation: one entry per event the controller was given
    \* ---- VideoStreamer ----
    pipeline,           \* _pipeline: 0 is the null pointer, else the pipeline object
    playing,            \* pipeline objects created and not yet set to StateNull
    connected,          \* pipeline objects whose bus "message" signal is connected
    bus,                \* bus messages posted by pipelines and not yet dispatched
    nextPipeline,       \* identity of the next pipeline object created
    alive,              \* the VideoStreamer object exists (constructed, not destroyed)
    constructed,        \* the constructor of the VideoStreamer has been entered
    childExit,          \* code the child process has exited with (0: it has not)
    calls,              \* _parentInterface->call(...) made by the latest slot/callback
    reported,           \* observation: pipelines an onChildError was made for
    tornDown,           \* observation: a pipeline was stopped by stop() or has failed
    posted,             \* observation: number of bus messages posted so far
    vsteps,             \* observation: number of slots/callbacks run so far
    vlog                \* observation: the latest two slots/callbacks that returned

mcVars == <<isRecording, controlState, commentsState, mainState, mbedStatus,
            recordStartTime, recorderStart, started, exitCode, quit, sent, notes,
            watchdogs, forwarded, settings, audioPlayer, log>>
vsVars == <<pipeline, playing, connected, bus, nextPipeline, alive, constructed,
            childExit, calls, reported, tornDown, posted, vsteps, vlog>>
vars == <<mcVars, vsVars>>

---------------------------------------------------------------------------
\* Bounds of the model
MaxSteps == 5       \* handlers run by the controller in one behaviour
MaxChildSteps == 4  \* slots/callbacks run by the video streamer in one behaviour
MaxPosts == 2       \* bus messages posted by the pipelines in one behaviour
MaxFrames == 1      \* frames received by the controller in one behaviour
MaxMediaSteps == 3  \* handlers run by the controller in one behaviour of the media handlers

\* Clock readings (ms since the epoch) that QDateTime::currentDateTime() returns
\* and that a received start-recording message carries
Times == {1000, 2000}

\* What _recordStartTime holds before the first request: the constructor does
\* not initialize it, so it is whatever the allocation left there. 0 is what
\* a fresh heap gives; the other two stand for every other bit pattern (the
\* patterns 5A5A... and FEFE... of a perturbed allocator, cut to 32 bits)
IndeterminateTimes == {0, 1515870810, -16843010}

---------------------------------------------------------------------------
\* MainController
---------------------------------------------------------------------------
RecordingStates == {"Idle", "Waiting", "Recording"}

StartMsg(t) == [tag |-> "StartDataRecording", time |-> t]
StopMsg == [tag |-> "StopDataRecording"]

\* The controller's state as one record
Ctl == [isRecording |-> isRecording, controlState |-> controlState,
        commentsState |-> commentsState, mainState |-> mainState,
        mbedStatus |-> mbedStatus, recordStartTime |-> recordStartTime,
        recorderStart |-> recorderStart, started |-> started, exitCode |-> exitCode,
        quit |-> quit,
        sent |-> sent, notes |-> notes, watchdogs |-> watchdogs,
        forwarded |-> forwarded, settings |-> settings, audioPlayer |-> audioPlayer]

sendMessage(s, m) == [s EXCEPT !.sent = Append(@, m)]

notify(s, type, title) == [s EXCEPT !.notes = Append(@, [type |-> type, title |-> title])]

\* The fields of _settings that the handlers test: enableVideo, enableAudio
\* and whether defaultAudioFormat is useable
SettingsValues == [enableVideo : BOOLEAN, enableAudio : BOOLEAN, audioUsable : BOOLEAN]

\* SettingsModel::Default(roverIP): the handlers of the recording handshake
\* and of the channel's messages do not read it
DefaultSettings == [enableVideo |-> TRUE, enableAudio |-> TRUE, audioUsable |-> TRUE]

\* The audio player: not playing, or playing what arrives at an address
Silent == [playing |-> FALSE, address |-> ""]
PlayingFrom(address) == [playing |-> TRUE, address |-> address]

\* panic() ends the process: exit(1)
panic(s) == [s EXCEPT !.exitCode = 1]

\* Values of the environment variable SORO_ROVER_IP: unset, not an address,
\* an address
RoverIPs == {"", "rover", "10.0.0.2"}

\* QRegExp(IPV4_REGEX).exactMatch || QRegExp(IPV6_REGEX).exactMatch
IsAddress(ip) == ip \in {"10.0.0.2"}

\* The startup lambda of init(): it ends the process on a missing or invalid
\* rover address, else it creates the collaborators and connects the signals
init(s, roverIP) ==
    IF roverIP = "" THEN panic(s)
    ELSE IF ~IsAddress(roverIP) THEN panic(s)
    ELSE [s EXCEPT !.started = TRUE]

sendStartRecordCommandToRover(s) == sendMessage(s, StartMsg(s.recordStartTime))

sendStopRecordCommandToRover(s) == sendMessage(s, StopMsg)

\* Mutant: the main window is left out
stopDataRecording_TwoWindows(s) ==
    sendMessage([s EXCEPT !.isRecording = FALSE,
                          !.controlState = "Idle",
                          !.commentsState = "Idle"],
                StopMsg)

stopDataRecording(s) ==
    sendMessage([s EXCEPT !.isRecording = FALSE,
                          !.controlState = "Idle",
                          !.commentsState = "Idle",
                          !.mainState = "Idle"],
                StopMsg)

\* Mutant: the request starts the recorder without waiting for the rover
startDataRecording_StartsRecorder(s, now) ==
    LET s1 == sendStartRecordCommandToRover([s EXCEPT !.recordStartTime = now])
    IN  [s1 EXCEPT !.isRecording = TRUE,
                   !.controlState = "Waiting",
                   !.commentsState = "Waiting",
                   !.mainState = "Waiting",
                   !.watchdogs = @ + 1]

\* Mutant: the start message is written before the timestamp is taken
startDataRecording_StaleTime(s, now) ==
    LET s1 == [sendStartRecordCommandToRover(s) EXCEPT !.recordStartTime = now]
    IN  [s1 EXCEPT !.controlState = "Waiting",
                   !.commentsState = "Waiting",
                   !.mainState = "Waiting",
                   !.watchdogs = @ + 1]

\* now: the clock reading taken by the call
startDataRecording(s, now) ==
    LET s1 == sendStartRecordCommandToRover([s EXCEPT !.recordStartTime = now])
    IN  [s1 EXCEPT !.controlState = "Waiting",
                   !.commentsState = "Waiting",
                   !.mainState = "Waiting",
                   !.watchdogs = @ + 1]

\* Mutant: the watchdog does not look at isRecording
watchdogExpired_NoCheck(s) ==
    notify(stopDataRecording([s EXCEPT !.watchdogs = @ - 1]), "Error", "Cannot Record Data")

\* Mutant: on a timeout the watchdog only notifies
watchdogExpired_NoStop(s) ==
    LET s0 == [s EXCEPT !.watchdogs = @ - 1]
    IN  IF ~s0.isRecording THEN notify(s0, "Error", "Cannot Record Data") ELSE s0

\* The lambda given to QTimer::singleShot in startDataRecording
watchdogExpired(s) ==
    LET s0 == [s EXCEPT !.watchdogs = @ - 1]
    IN  IF ~s0.isRecording
        THEN notify(stopDataRecording(s0), "Error", "Cannot Record Data")
        ELSE s0

\* QApplication::quit(): the event loop ends and the process with it
onWindowClosed(s) == [s EXCEPT !.quit = TRUE]

toggleDataRecording(s, now) ==
    IF s.isRecording THEN stopDataRecording(s) ELSE startDataRecording(s, now)


StopCamerasMsg == [tag |-> "StopAllCameraStreams"]
DeactivateAudioMsg == [tag |-> "RequestDeactivateAudioStream"]
\* format.serialize() of the default audio format
ActivateAudioMsg == [tag |-> "RequestActivateAudioStream", format |-> <<0, 102>>]

\* _mainWindow->stopVideo(), then the stop-all-cameras message
stopAllRoverCameras(s) ==
    sendMessage([s EXCEPT !.forwarded = Append(@, [to |-> "mainWindow", data |-> <<>>])],
                StopCamerasMsg)

stopAudio(s) == sendMessage(s, DeactivateAudioMsg)

\* Mutant: the format is not tested
startAudioStream_AnyFormat(s, useable) == sendMessage(s, ActivateAudioMsg)

\* useable: format.isUseable()
startAudioStream(s, useable) == IF useable THEN sendMessage(s, ActivateAudioMsg) ELSE s

\* ui: the values the control window writes into _settings
\* (_controlWindow->updateSettingsModel(&_settings))
onSettingsApplied(s, ui) ==
    LET s0 == [s EXCEPT !.settings = ui]
        s1 == IF s0.settings.enableVideo THEN s0 ELSE stopAllRoverCameras(s0)
    IN  IF s1.settings.enableAudio
        THEN startAudioStream(s1, s1.settings.audioUsable)
        ELSE stopAudio(s1)

\* States of the audio client (MediaClient::State)
AudioStates == {"Connecting", "Connected", "Streaming"}

\* The slot; init() connects no signal to it and nothing calls it
onAudioClientStateChanged(s, state) ==
    CASE state = "Streaming" ->
            [s EXCEPT !.audioPlayer = PlayingFrom("LocalHost"), !.settings.enableAudio = TRUE]
      [] state = "Connecting" ->
            [s EXCEPT !.audioPlayer = Silent, !.settings.enableAudio = FALSE]
      [] OTHER -> s

\* Mutant: an error of any media is reported as a video error
mediaServerError_AlwaysVideo(s, mediaId, audioId) == notify(s, "Warning", "Video Stream Error")

\* case SharedMessage_RoverMediaServerError.
\* audioId: what _audioClient->getMediaId() returns
mediaServerError(s, mediaId, audioId) ==
    IF mediaId = audioId
    THEN notify(s, "Warning", "Audio Stream Error")
    ELSE notify(s, "Warning", "Video Stream Error")

\* Mutant: an unknown message is shown to the operator
defaultCase_Notify(s) == notify(s, "Error", "Unknown Message")

\* Mutant: an unknown message ends the process as panic() does
defaultCase_Panic(s) == [s EXCEPT !.exitCode = 1]

\* default: of the switch (LOG_E only)
defaultCase(s) == s

\* The switch of onMainChannelMessageReceived over the decoded message m.
\* startOk: what _dataRecorder->startLog returns (read only for a
\* StartDataRecording message); audioId: what _audioClient->getMediaId()
\* returns (read only for a RoverMediaServerError message).
onMainChannelMessageReceived(s, m, startOk, audioId) ==
    CASE m.tag = "RoverStatusUpdate" ->
            IF ~m.mbedStatus
            THEN [notify(s, "Error", "Mbed Error") EXCEPT !.mbedStatus = "Error"]
            ELSE [s EXCEPT !.mbedStatus = "Normal"]
      [] m.tag = "RoverMediaServerError" ->
            mediaServerError(s, m.mediaId, audioId)
      [] m.tag = "RoverGpsUpdate" ->
            [s EXCEPT !.forwarded = @ \o <<[to |-> "controlWindow", data |-> m.location],
                                           [to |-> "gpsDataSeries", data |-> m.location]>>]
      [] m.tag = "RoverDriveOverrideStart" ->
            [notify(s, "Info", "Network Driving Disabled") EXCEPT !.mbedStatus = "Manual Override"]
      [] m.tag = "RoverDriveOverrideEnd" ->
            [notify(s, "Info", "Network Driving Enabled") EXCEPT !.mbedStatus = "Normal"]
      [] m.tag = "SensorUpdate" ->
            [s EXCEPT !.forwarded = Append(@, [to |-> "sensorDataSeries", data |-> m.data])]
      [] m.tag = "StartDataRecording" ->
            LET s0 == [s EXCEPT !.recorderStart = <<s.recordStartTime>>]
                s1 == IF startOk
                      THEN [s0 EXCEPT !.isRecording = TRUE]
                      ELSE sendStopRecordCommandToRover(
                               notify(stopDataRecording(s0), "Error", "Cannot Record Data"))
            IN  [s1 EXCEPT !.controlState = "Recording",
                           !.commentsState = "Recording"]
      [] OTHER -> defaultCase(s)

---------------------------------------------------------------------------
\* Wire format of the main channel: QDataStream over a QByteArray. A frame is
\* a sequence of bytes (0..255); QDataStream writes integers most significant
\* byte first.
---------------------------------------------------------------------------
\* The message tags in the order of the SharedMessageType enumeration
Tags == <<"RoverStatusUpdate", "RoverMediaServerError", "RoverGpsUpdate",
          "RoverDriveOverrideStart", "RoverDriveOverrideEnd", "SensorUpdate",
          "StartDataRecording", "StopDataRecording", "StopAllCameraStreams",
          "RequestActivateAudioStream", "RequestDeactivateAudioStream">>

\* The header that declares SharedMessageType and MEDIAID_AUDIO is not among
\* the sources. A build is one choice of what it declares: the value of the
\* first enumerator (0 when the enumeration gives no values, the following
\* enumerators counting up from it) and the media id of the audio client.
TagBases == {0, 1}
MediaIds == {0, 1, 100}
Builds == [tagBase : TagBases, audioMediaId : MediaIds]

\* The value of a tag, and the tag of a value, when the enumeration starts at base
TagCode(base, tag) == base - 1 + CHOOSE c \in 1..Len(Tags) : Tags[c] = tag

TagOf(base, code) ==
    IF code - base + 1 \in 1..Len(Tags) THEN Tags[code - base + 1] ELSE "Unknown"

\* operator<< for an integer of w bytes
RECURSIVE writeInt(_, _)
writeInt(n, w) == IF w = 0 THEN <<>> ELSE Append(writeInt(n \div 256, w - 1), n % 256)

\* operator<< for a bool
writeBool(b) == <<IF b THEN 1 ELSE 0>>

\* operator<< for a QByteArray, and for the UTF-16 code units of a QString:
\* the length in bytes as a quint32, then the bytes
writeBytes(b) == writeInt(Len(b), 4) \o b

\* The number that the bytes b hold
RECURSIVE valueOf(_)
valueOf(b) == IF b = <<>> THEN 0
              ELSE valueOf(SubSeq(b, 1, Len(b) - 1)) * 256 + b[Len(b)]

\* operator>> for an integer of w bytes: the value read and the bytes left.
\* With fewer than w bytes left the read fails: it consumes what is left and
\* the value is 0.
readInt(buf, w) ==
    IF Len(buf) >= w
    THEN [val |-> valueOf(SubSeq(buf, 1, w)), rest |-> SubSeq(buf, w + 1, Len(buf))]
    ELSE [val |-> 0, rest |-> <<>>]

\* operator>> for a bool
readBool(buf) == LET r == readInt(buf, 1) IN [val |-> r.val # 0, rest |-> r.rest]

\* operator>> for a QByteArray or a QString: empty when the length or the
\* bytes it announces are not all there
readBytes(buf) ==
    LET n == readInt(buf, 4)
    IN  IF Len(n.rest) >= n.val
        THEN [val |-> SubSeq(n.rest, 1, n.val), rest |-> SubSeq(n.rest, n.val + 1, Len(n.rest))]
        ELSE [val |-> <<>>, rest |-> <<>>]

\* The bytes a sender writes for the message m: the tag as a qint32, then the
\* fields of the tag in the order in which the receiver reads them
encode(base, m) ==
    LET tag == IF m.tag = "Unknown" THEN writeInt(m.code, 4)
               ELSE writeInt(TagCode(base, m.tag), 4)
    IN  CASE m.tag = "RoverStatusUpdate" -> tag \o writeBool(m.mbedStatus)
          [] m.tag = "RoverMediaServerError" ->
                tag \o writeInt(m.mediaId, 4) \o writeBytes(m.error)
          [] m.tag = "RoverGpsUpdate" -> tag \o <<m.location>>
          [] m.tag = "SensorUpdate" -> tag \o writeBytes(m.data)
          [] m.tag = "StartDataRecording" -> tag \o writeInt(m.time, 8)
          [] m.tag = "RequestActivateAudioStream" -> tag \o writeBytes(m.format)
          [] OTHER -> tag

\* What onMainChannelMessageReceived reads from the frame buf before and in
\* the case of its switch: the tag, then the fields the case reads
decodeMessage(base, buf) ==
    LET h == readInt(buf, 4)
        tag == TagOf(base, h.val)
    IN  CASE tag = "RoverStatusUpdate" ->
                [tag |-> tag, mbedStatus |-> readBool(h.rest).val]
          [] tag = "RoverMediaServerError" ->
                LET id == readInt(h.rest, 4)
                IN  [tag |-> tag, mediaId |-> id.val, error |-> readBytes(id.rest).val]
          [] tag = "RoverGpsUpdate" ->
                [tag |-> tag, location |-> readInt(h.rest, 1).val]
          [] tag = "SensorUpdate" ->
                [tag |-> tag, data |-> readBytes(h.rest).val]
          [] tag = "Unknown" -> [tag |-> tag, code |-> h.val]
          [] OTHER -> [tag |-> tag]

---------------------------------------------------------------------------
\* Observation of the handlers: what each one found and what it left

Snap(s) == [isRecording |-> s.isRecording, controlState |-> s.controlState,
            commentsState |-> s.commentsState, mainState |-> s.mainState,
            mbedStatus |-> s.mbedStatus]

NoMsg == [tag |-> "none"]

\* What a request records: the clock reading it took
Clock(now) == [tag |-> "none", time |-> now]

Entry(ev, m, ok, s, r) ==
    [ev |-> ev, msg |-> m, ok |-> ok, pre |-> Snap(s), post |-> Snap(r),
     sentFrom |-> Len(s.sent), sentTo |-> Len(r.sent),
     notesFrom |-> Len(s.notes), notesTo |-> Len(r.notes),
     forwardedFrom |-> Len(s.forwarded), forwardedTo |-> Len(r.forwarded),
     watchdogsFrom |-> s.watchdogs, watchdogsTo |-> r.watchdogs,
     startTimeFrom |-> s.recordStartTime, startTimeTo |-> r.recordStartTime,
     recorderFrom |-> s.recorderStart, recorderTo |-> r.recorderStart,
     settingsFrom |-> s.settings, settingsTo |-> r.settings,
     playerFrom |-> s.audioPlayer, playerTo |-> r.audioPlayer,
     exitCode |-> r.exitCode]

\* The variables take the state r that a handler left
Becomes(r, e) ==
    /\ isRecording' = r.isRecording
    /\ controlState' = r.controlState
    /\ commentsState' = r.commentsState
    /\ mainState' = r.mainState
    /\ mbedStatus' = r.mbedStatus
    /\ recordStartTime' = r.recordStartTime
    /\ recorderStart' = r.recorderStart
    /\ started' = r.started
    /\ exitCode' = r.exitCode
    /\ quit' = r.quit
    /\ sent' = r.sent
    /\ notes' = r.notes
    /\ watchdogs' = r.watchdogs
    /\ forwarded' = r.forwarded
    /\ settings' = r.settings
    /\ audioPlayer' = r.audioPlayer
    /\ log' = Append(log, e)
    /\ UNCHANGED vsVars

\* The signals are connected by the startup lambda of init(); a process that
\* has exited, or whose event loop has been ended by QApplication::quit(),
\* runs no handler and fires no timer
Running == started /\ exitCode = 0 /\ ~quit

\* The event loop runs the startup lambda (QTimer::singleShot(0, ...))
Startup ==
    /\ ~started /\ exitCode = 0
    /\ \E ip \in RoverIPs :
          LET r == init(Ctl, ip)
          IN  /\ started' = r.started
              /\ exitCode' = r.exitCode
    /\ UNCHANGED <<isRecording, controlState, commentsState, mainState, mbedStatus,
                   recordStartTime, recorderStart, quit, sent, notes, watchdogs,
                   forwarded, settings, audioPlayer, log, vsVars>>

\* The record button of the control or comments window is clicked
ToggleDataRecording ==
    /\ Running /\ Len(log) < MaxSteps
    /\ \E now \in Times :
          LET r == toggleDataRecording(Ctl, now)
          IN  Becomes(r, Entry(IF isRecording THEN "toggle_stop" ELSE "toggle_start",
                               IF isRecording THEN NoMsg ELSE Clock(now), TRUE, Ctl, r))

\* The oldest pending watchdog expires (equal intervals: they expire in the
\* order in which they were armed)
WatchdogExpired ==
    /\ Running /\ Len(log) < MaxSteps
    /\ watchdogs > 0
    /\ LET r == watchdogExpired(Ctl)
       IN  Becomes(r, Entry("watchdog", NoMsg, TRUE, Ctl, r))

\* The control window or the comments window is closed
WindowClosed ==
    /\ Running
    /\ LET r == onWindowClosed(Ctl) IN quit' = r.quit
    /\ UNCHANGED <<isRecording, controlState, commentsState, mainState, mbedStatus,
                   recordStartTime, recorderStart, started, exitCode, sent, notes,
                   watchdogs, forwarded, settings, audioPlayer, log, vsVars>>

\* The operator applies the settings of the control window
SettingsApplied ==
    /\ Running /\ Len(log) < MaxMediaSteps
    /\ \E ui \in SettingsValues :
          LET r == onSettingsApplied(Ctl, ui)
          IN  Becomes(r, Entry("settings", NoMsg, TRUE, Ctl, r))

\* What an audio event records: the state the audio client has taken
AudioEvent(state) == [tag |-> "none", state |-> state]

\* The audio client created by init() changes its state. init() connects
\* none of the client's signals to the controller (the media systems are
\* "TODO"): the change runs no handler, the controller is as it was
AudioClientStateChanged ==
    /\ Running /\ Len(log) < MaxMediaSteps
    /\ \E state \in AudioStates :
          Becomes(Ctl, Entry("audio", AudioEvent(state), TRUE, Ctl, Ctl))

\* Messages of the recording handshake, and one with a tag the switch does
\* not know
HandshakeMessages ==
    {StartMsg(t) : t \in Times} \cup {[tag |-> "Unknown"]}

ReceiveHandshake ==
    /\ Running /\ Len(log) < MaxSteps
    /\ \E m \in HandshakeMessages :
       \E ok \in (IF m.tag = "StartDataRecording" THEN BOOLEAN ELSE {TRUE}) :
       \E audioId \in (IF m.tag = "RoverMediaServerError" THEN MediaIds ELSE {0}) :
          LET r == onMainChannelMessageReceived(Ctl, m, ok, audioId)
          IN  Becomes(r, Entry("message", m, ok, Ctl, r))

\* Messages put on the wire: one of every tag the switch has a case for, with
\* each value of a field the case tests, the stop command (a tag without a
\* case) and a tag outside the enumeration
WireMessages ==
    {[tag |-> "RoverStatusUpdate", mbedStatus |-> b] : b \in BOOLEAN}
    \cup {[tag |-> "RoverMediaServerError", mediaId |-> id, error |-> <<0, 101>>] :
             id \in MediaIds}
    \cup {[tag |-> "RoverGpsUpdate", location |-> 7],
          [tag |-> "RoverDriveOverrideStart"], [tag |-> "RoverDriveOverrideEnd"],
          [tag |-> "SensorUpdate", data |-> <<9>>],
          StopMsg, [tag |-> "Unknown", code |-> 99]}
    \cup {StartMsg(t) : t \in Times}

Prefixes(f) == {SubSeq(f, 1, n) : n \in 0..Len(f)}

\* Frames the channel may deliver, by the value of the first enumerator: the
\* messages as written and every frame cut short (the handler is given
\* whatever size the channel reports)
Frames == [base \in TagBases |-> UNION {Prefixes(encode(base, m)) : m \in WireMessages}]

\* What a frame event records: the bytes, the build that read them and what
\* the handler read from them
Received(f, build) ==
    [tag |-> decodeMessage(build.tagBase, f).tag, frame |-> f, build |-> build,
     decoded |-> decodeMessage(build.tagBase, f)]

\* The frames received so far
FramesIn(q) == Len(SelectSeq(q, LAMBDA e : e.ev = "frame"))

\* Channel::messageReceived with the raw bytes of a frame. The build is the
\* same for every frame of a behaviour.
ReceiveFrame ==
    /\ Running /\ FramesIn(log) < MaxFrames
    /\ \E build \in Builds :
       /\ \A i \in DOMAIN log : log[i].ev = "frame" => log[i].msg.build = build
       /\ \E f \in Frames[build.tagBase] :
          \E ok \in (IF decodeMessage(build.tagBase, f).tag = "StartDataRecording"
                     THEN BOOLEAN ELSE {TRUE}) :
             LET r == onMainChannelMessageReceived(Ctl, decodeMessage(build.tagBase, f),
                                                   ok, build.audioMediaId)
             IN  Becomes(r, Entry("frame", Received(f, build), ok, Ctl, r))


---------------------------------------------------------------------------
\* VideoStreamer
---------------------------------------------------------------------------
NullPipeline == 0

Devices == {"/dev/video0", "/dev/video1"}
ErrorDetails == {"device disconnected", "internal data stream error"}
EosDetail == "Received EOS message from GStreamer"

Ready == [method |-> "onChildReady"]
Streaming == [method |-> "onChildStreaming"]
LogInfo(text) == [method |-> "onChildLogInfo", message |-> text]
ChildError(text) == [method |-> "onChildError", message |-> text]

\* The streamer's state as one record, as a slot or callback finds it (calls:
\* the calls it has made on the parent so far)
Vs == [pipeline |-> pipeline, playing |-> playing, connected |-> connected,
       bus |-> bus, calls |-> <<>>, nextPipeline |-> nextPipeline, alive |-> alive,
       constructed |-> constructed, childExit |-> childExit]

call(v, c) == [v EXCEPT !.calls = Append(@, c)]

\* The pending bus messages that pipeline p did not post
FlushBus(q, p) == SelectSeq(q, LAMBDA m : m.pipeline # p)

\* Mutant: no test of _pipeline, the teardown calls are made every time
stopPrivate_NoNullTest(v, sendReady) ==
    LET v1 == call(v, LogInfo("Freeing pipeline"))
        v2 == [v1 EXCEPT !.connected = @ \ {v.pipeline},
                         !.playing = @ \ {v.pipeline},
                         !.bus = FlushBus(@, v.pipeline),
                         !.pipeline = NullPipeline]
    IN  IF sendReady THEN call(v2, Ready) ELSE v2

\* Mutant: the reference is dropped without disconnecting the bus handler
\* and without setting the pipeline to StateNull
stopPrivate_NoTeardown(v, sendReady) ==
    IF v.pipeline # NullPipeline
    THEN LET v1 == call(v, LogInfo("Freeing pipeline"))
             v2 == [v1 EXCEPT !.pipeline = NullPipeline]
         IN  IF sendReady THEN call(v2, Ready) ELSE v2
    ELSE v

\* Mutant: every teardown reports ready, whatever sendReady is
stopPrivate_AlwaysReady(v, sendReady) ==
    IF v.pipeline # NullPipeline
    THEN LET v1 == call(v, LogInfo("Freeing pipeline"))
             v2 == [v1 EXCEPT !.connected = @ \ {v.pipeline},
                              !.playing = @ \ {v.pipeline},
                              !.bus = FlushBus(@, v.pipeline),
                              !.pipeline = NullPipeline]
         IN  call(v2, Ready)
    ELSE v

stopPrivate(v, sendReady) ==
    IF v.pipeline # NullPipeline
    THEN LET v1 == call(v, LogInfo("Freeing pipeline"))
             \* QGlib::disconnect, setState(StateNull) (which flushes the
             \* pipeline's bus), _pipeline.clear()
             v2 == [v1 EXCEPT !.connected = @ \ {v.pipeline},
                              !.playing = @ \ {v.pipeline},
                              !.bus = FlushBus(@, v.pipeline),
                              !.pipeline = NullPipeline]
         IN  IF sendReady THEN call(v2, Ready) ELSE v2
    ELSE v

stop(v) == stopPrivate(v, TRUE)

\* createPipeline: a new pipeline object with onBusMessage connected to its bus
createPipeline(v) ==
    [v EXCEPT !.pipeline = v.nextPipeline,
              !.connected = @ \cup {v.nextPipeline},
              !.nextPipeline = @ + 1]

\* Mutant: the active pipeline is not torn down first
startPipeline_NoStop(v, what) ==
    LET v1 == createPipeline(v)
        v2 == call(v1, LogInfo(<<"Starting GStreamer with command", what>>))
        v3 == [v2 EXCEPT !.playing = @ \cup {v1.pipeline}]
    IN  call(v3, Streaming)

\* The body shared by stream and streamStereo; what: the devices encoded
startPipeline(v, what) ==
    LET v1 == createPipeline(stopPrivate(v, FALSE))
        v2 == call(v1, LogInfo(<<"Starting GStreamer with command", what>>))
        v3 == [v2 EXCEPT !.playing = @ \cup {v1.pipeline}]
    IN  call(v3, Streaming)

stream(v, device) == startPipeline(v, <<device>>)

streamStereo(v, leftDevice, rightDevice) == startPipeline(v, <<leftDevice, rightDevice>>)

\* Mutant: the error is reported and the pipeline left running
onBusMessage_NoStop(v, m) ==
    CASE m.type = "Eos" -> call(v, ChildError(EosDetail))
      [] m.type = "Error" -> call(v, ChildError(m.detail))
      [] OTHER -> v

\* Mutant: after an error or end-of-stream the pipeline is started again
onBusMessage_Restart(v, m) ==
    CASE m.type = "Eos" ->
            startPipeline(stopPrivate(call(v, ChildError(EosDetail)), TRUE), <<"restart">>)
      [] m.type = "Error" ->
            startPipeline(stopPrivate(call(v, ChildError(m.detail)), TRUE), <<"restart">>)
      [] OTHER -> v

onBusMessage(v, m) ==
    CASE m.type = "Eos" -> stopPrivate(call(v, ChildError(EosDetail)), TRUE)
      [] m.type = "Error" -> stopPrivate(call(v, ChildError(m.detail)), TRUE)
      [] OTHER -> v

\* The constructor: it ends the process with 12, 13 or 14 when the D-Bus
\* session is not there, the object cannot be registered or the parent's
\* interface is not valid, else it tells the parent that the child is ready
VideoStreamer(v, busConnected, registered, parentValid) ==
    LET v0 == [v EXCEPT !.constructed = TRUE]
    IN  IF ~busConnected THEN [v0 EXCEPT !.childExit = 12]
        ELSE IF ~registered THEN [v0 EXCEPT !.childExit = 13]
        ELSE IF ~parentValid THEN [v0 EXCEPT !.childExit = 14]
        ELSE call([v0 EXCEPT !.alive = TRUE], Ready)

\* ~VideoStreamer
destroy(v) == [stopPrivate(v, FALSE) EXCEPT !.alive = FALSE]

---------------------------------------------------------------------------
\* Observation of the slots and callbacks: what each one found, left and called

VsSnap(v) == [pipeline |-> v.pipeline, playing |-> v.playing, connected |-> v.connected,
              bus |-> v.bus, created |-> v.nextPipeline - 1]

ErrorCallsIn(q) == Len(SelectSeq(q, LAMBDA x : x.method = "onChildError"))

VsEntry(ev, m, v, r) ==
    [ev |-> ev, msg |-> m, pre |-> VsSnap(v), post |-> VsSnap(r), calls |-> r.calls,
     tornDownBefore |-> tornDown, reportedBefore |-> reported]

Latest(q) == IF Len(q) > 2 THEN Tail(q) ELSE q

\* The variables take the state r that a slot or callback left
VsBecomes(r, e) ==
    /\ pipeline' = r.pipeline
    /\ playing' = r.playing
    /\ connected' = r.connected
    /\ bus' = r.bus
    /\ nextPipeline' = r.nextPipeline
    /\ alive' = r.alive
    /\ constructed' = r.constructed
    /\ childExit' = r.childExit
    /\ calls' = r.calls
    /\ reported' = IF ErrorCallsIn(r.calls) > 0 THEN reported \cup {e.msg.pipeline}
                   ELSE reported
    /\ tornDown' = (\/ tornDown
                    \/ ErrorCallsIn(r.calls) > 0
                    \/ (e.ev = "stop" /\ e.pre.pipeline # NullPipeline))
    /\ posted' = posted
    /\ vsteps' = vsteps + 1
    /\ vlog' = Latest(Append(vlog, e))
    /\ UNCHANGED mcVars

NoBusMsg == [pipeline |-> NullPipeline, type |-> "none", detail |-> ""]

\* The child process starts and constructs its VideoStreamer
Constructed ==
    /\ ~constructed
    /\ \E c \in BOOLEAN : \E g \in BOOLEAN : \E p \in BOOLEAN :
          LET r == VideoStreamer(Vs, c, g, p)
          IN  /\ constructed' = r.constructed
              /\ alive' = r.alive
              /\ childExit' = r.childExit
              /\ calls' = r.calls
    /\ UNCHANGED <<mcVars, pipeline, playing, connected, bus, nextPipeline, reported,
                   tornDown, posted, vsteps, vlog>>

\* The parent calls the slot stream(...)
StreamCalled ==
    /\ alive /\ vsteps < MaxChildSteps
    /\ \E d \in Devices :
          LET r == stream(Vs, d) IN VsBecomes(r, VsEntry("stream", NoBusMsg, Vs, r))

\* The parent calls the slot streamStereo(...)
StreamStereoCalled ==
    /\ alive /\ vsteps < MaxChildSteps
    /\ \E l \in Devices : \E rd \in Devices \ {l} :
          LET r == streamStereo(Vs, l, rd)
          IN  VsBecomes(r, VsEntry("streamStereo", NoBusMsg, Vs, r))

\* The parent calls the slot stop()
StopCalled ==
    /\ alive /\ vsteps < MaxChildSteps
    /\ LET r == stop(Vs) IN VsBecomes(r, VsEntry("stop", NoBusMsg, Vs, r))

BusMessages(p) ==
    {[pipeline |-> p, type |-> "Eos", detail |-> ""],
     [pipeline |-> p, type |-> "StateChanged", detail |-> ""]}
    \cup {[pipeline |-> p, type |-> "Error", detail |-> d] : d \in ErrorDetails}

\* A pipeline in the playing state posts a message on its bus (GStreamer's
\* streaming threads; not a handler of the VideoStreamer)
PipelinePosts ==
    /\ alive /\ posted < MaxPosts /\ vsteps < MaxChildSteps
    /\ \E p \in playing : \E m \in BusMessages(p) : bus' = Append(bus, m)
    /\ posted' = posted + 1
    /\ UNCHANGED <<mcVars, pipeline, playing, connected, nextPipeline, alive,
                   constructed, childExit, calls, reported, tornDown, vsteps, vlog>>

\* The event loop dispatches the oldest pending bus message to the handler
\* connected to that pipeline's bus; with no handler connected it is dropped
BusMessageDispatched ==
    /\ alive /\ vsteps < MaxChildSteps
    /\ bus # <<>>
    /\ LET m == Head(bus)
           v == [Vs EXCEPT !.bus = Tail(@)]
       IN  IF m.pipeline \in connected
           THEN LET r == onBusMessage(v, m)
                IN  VsBecomes(r, VsEntry("busMessage", m, Vs, r))
           ELSE /\ bus' = Tail(bus)
                /\ UNCHANGED <<mcVars, pipeline, playing, connected, nextPipeline, alive,
                               constructed, childExit, calls, reported, tornDown, posted, vsteps, vlog>>

\* The VideoStreamer is destroyed (process exit)
Destroyed ==
    /\ alive
    /\ LET r == destroy(Vs) IN VsBecomes(r, VsEntry("destroy", NoBusMsg, Vs, r))

---------------------------------------------------------------------------
\* Specifications
---------------------------------------------------------------------------
\* The controller after its startup, its settings one of values
InitController(values) ==
    /\ isRecording = FALSE
    /\ controlState = "Idle"
    /\ commentsState = "Idle"
    /\ mainState = "Idle"
    /\ mbedStatus = ""
    /\ recordStartTime \in IndeterminateTimes
    /\ recorderStart = <<>>
    \* the startup lambda of init() has run through
    /\ started = TRUE
    /\ exitCode = 0
    /\ quit = FALSE
    /\ sent = <<>>
    /\ notes = <<>>
    /\ watchdogs = 0
    /\ forwarded = <<>>
    /\ settings \in values
    /\ audioPlayer = Silent
    /\ log = <<>>

\* VideoStreamer::VideoStreamer has called onChildReady
InitStreamer ==
    /\ pipeline = NullPipeline
    /\ playing = {}
    /\ connected = {}
    /\ bus = <<>>
    /\ nextPipeline = 1
    /\ alive = TRUE
    /\ constructed = TRUE
    /\ childExit = 0
    /\ calls = <<Ready>>
    /\ reported = {}
    /\ tornDown = FALSE
    /\ posted = 0
    /\ vsteps = 0
    /\ vlog = <<>>

Init == InitController({DefaultSettings}) /\ InitStreamer

\* The settings may have any value when a handler that reads them runs
InitMedia == InitController(SettingsValues) /\ InitStreamer

\* The recording handshake of the MainController
NextRecording == ToggleDataRecording \/ WatchdogExpired \/ ReceiveHandshake

SpecRecording == Init /\ [][NextRecording]_vars

\* The recording handshake with its timer. No code cancels a pending
\* single-shot timer, so while the event loop runs it fires: the expiry of a
\* watchdog is weakly fair. Closing a window ends the event loop, and the
\* timers still pending then never fire (WatchdogExpired is not enabled any
\* more). A request or a message is taken only while the behaviour has room
\* left for it and for the expiries still to come.
HasRoom == Len(log) + watchdogs + 1 < MaxSteps

NextHandshake ==
    \/ (HasRoom /\ ToggleDataRecording)
    \/ (HasRoom /\ ReceiveHandshake)
    \/ WatchdogExpired
    \/ WindowClosed

SpecHandshake == Init /\ [][NextHandshake]_vars /\ WF_vars(WatchdogExpired)

\* The router of the MainController: frames arrive, the operator may have
\* asked for a recording or stopped one before
NextRouter ==
    \/ ReceiveFrame
    \/ (Len(log) < MaxFrames /\ FramesIn(log) = 0 /\ ToggleDataRecording)

SpecRouter == Init /\ [][NextRouter]_vars

\* The media events of the MainController: the operator applies settings,
\* the audio client changes state, the operator may have asked for a recording
NextMedia ==
    \/ SettingsApplied
    \/ AudioClientStateChanged
    \/ (Len(log) < MaxMediaSteps /\ ToggleDataRecording)

SpecMedia == InitMedia /\ [][NextMedia]_vars

\* Both processes before anything has run: the MainController is constructed,
\* its startup lambda is pending; the child has not entered its constructor
InitLifecycle ==
    /\ isRecording = FALSE
    /\ controlState = "Idle"
    /\ commentsState = "Idle"
    /\ mainState = "Idle"
    /\ mbedStatus = ""
    /\ recordStartTime \in IndeterminateTimes
    /\ recorderStart = <<>>
    /\ started = FALSE
    /\ exitCode = 0
    /\ quit = FALSE
    /\ sent = <<>>
    /\ notes = <<>>
    /\ watchdogs = 0
    /\ forwarded = <<>>
    /\ settings = DefaultSettings
    /\ audioPlayer = Silent
    /\ log = <<>>
    /\ pipeline = NullPipeline
    /\ playing = {}
    /\ connected = {}
    /\ bus = <<>>
    /\ nextPipeline = 1
    /\ alive = FALSE
    /\ constructed = FALSE
    /\ childExit = 0
    /\ calls = <<>>
    /\ reported = {}
    /\ tornDown = FALSE
    /\ posted = 0
    /\ vsteps = 0
    /\ vlog = <<>>

\* The controller and the child are two processes without shared state: a
\* behaviour follows the frames received by the controller while the child
\* has not begun, or the child while the controller has handled no frame
NextLifecycle ==
    \/ Startup
    \/ (~constructed /\ ReceiveFrame)
    \/ (log = <<>> /\ Constructed)
    \/ (log = <<>> /\ StreamCalled)
    \/ (log = <<>> /\ StopCalled)
    \/ (log = <<>> /\ PipelinePosts)
    \/ (log = <<>> /\ BusMessageDispatched)

SpecLifecycle == InitLifecycle /\ [][NextLifecycle]_vars

\* The child process from its start: the constructor, then its slots and
\* callbacks until it is destroyed
NextChild ==
    \/ Constructed
    \/ StreamCalled
    \/ StreamStereoCalled
    \/ StopCalled
    \/ PipelinePosts
    \/ BusMessageDispatched
    \/ Destroyed

SpecChild == InitLifecycle /\ [][NextChild]_vars

\* The VideoStreamer child process
NextStreamer ==
    \/ StreamCalled
    \/ StreamStereoCalled
    \/ StopCalled
    \/ PipelinePosts
    \/ BusMessageDispatched
    \/ Destroyed

SpecStreamer == Init /\ [][NextStreamer]_vars


---------------------------------------------------------------------------
\* Properties of the recording handshake (checked under SpecRecording)
---------------------------------------------------------------------------
\* The recording session's state is the one the control window shows: the
\* window whose record button drives the handshake and that is notified.

SentBy(e) == SubSeq(sent, e.sentFrom + 1, e.sentTo)
NotesBy(e) == SubSeq(notes, e.notesFrom + 1, e.notesTo)
SentBetween(a, b) == SubSeq(sent, a + 1, b)
NotesBetween(a, b) == SubSeq(notes, a + 1, b)
StopsIn(q) == Len(SelectSeq(q, LAMBDA m : m.tag = "StopDataRecording"))
ErrorsIn(q) == Len(SelectSeq(q, LAMBDA n : n.type = "Error"))
TimeoutNote == [type |-> "Error", title |-> "Cannot Record Data"]

IsRequest(e) == e.ev = "toggle_start"
IsRequestFromIdle(e) == IsRequest(e) /\ e.pre.controlState = "Idle"
IsStartMessage(e) == e.ev = "message" /\ e.msg.tag = "StartDataRecording"
IsAck(e) == IsStartMessage(e) /\ e.ok
IsFailedStart(e) == IsStartMessage(e) /\ ~e.ok
IsWatchdog(e) == e.ev = "watchdog"
IsToggle(e) == e.ev \in {"toggle_start", "toggle_stop"}

\* log[i] is a request made in Idle, log[k] the remote's start message with
\* the recorder starting, received before any watchdog expired, and up to
\* log[j] the operator has not toggled and no recorder start has failed
AckedInTime(i, k, j) ==
    /\ i < k /\ k <= j
    /\ IsRequestFromIdle(log[i])
    /\ IsAck(log[k])
    /\ \A x \in (i + 1)..(k - 1) : ~IsWatchdog(log[x]) /\ ~IsStartMessage(log[x])
    /\ \A x \in (k + 1)..j : ~IsToggle(log[x]) /\ ~IsFailedStart(log[x])

\* C1: a request acknowledged before the watchdog fires goes Idle -> Waiting ->
\* Recording, enters Recording exactly once, and no stop-recording message is
\* sent, also when watchdogs expire afterwards while the recorder is recording.
C1_AckedRequestRecords ==
    \A i \in DOMAIN log : \A k \in DOMAIN log : \A j \in DOMAIN log :
        AckedInTime(i, k, j) =>
            /\ \A x \in i..(k - 1) : log[x].post.controlState = "Waiting"
            /\ \A x \in k..j : log[x].post.controlState = "Recording"
                               /\ log[x].post.isRecording
            /\ Cardinality({x \in i..j : /\ log[x].pre.controlState # "Recording"
                                         /\ log[x].post.controlState = "Recording"}) = 1
            /\ StopsIn(SentBetween(log[i].sentFrom, log[j].sentTo)) = 0
            /\ ErrorsIn(NotesBetween(log[i].notesFrom, log[j].notesTo)) = 0

\* Witness of C1: request, acknowledgment, then the watchdog expired and the
\* session is still recording
C1_Witness ==
    /\ Len(log) >= 3
    /\ AckedInTime(1, 2, 3)
    /\ IsWatchdog(log[3])
    /\ controlState = "Recording" /\ isRecording /\ watchdogs = 0

\* log[i] is a request made in Idle and log[j] the first watchdog expiry
\* after it, no start-recording message having been received in between
TimedOut(i, j) ==
    /\ i < j
    /\ IsRequestFromIdle(log[i])
    /\ IsWatchdog(log[j])
    /\ \A x \in (i + 1)..(j - 1) : ~IsWatchdog(log[x]) /\ ~IsStartMessage(log[x])

\* C2: a request that is not acknowledged before the watchdog fires goes
\* Idle -> Waiting -> Idle, and the timeout sends exactly one stop-recording
\* message and raises exactly one error notification.
C2_TimeoutStopsOnce ==
    \A i \in DOMAIN log : \A j \in DOMAIN log :
        TimedOut(i, j) =>
            /\ \A x \in i..(j - 1) : log[x].post.controlState = "Waiting"
            /\ log[j].post.controlState = "Idle"
            /\ log[j].post.commentsState = "Idle"
            /\ log[j].post.mainState = "Idle"
            /\ ~log[j].post.isRecording
            /\ SentBy(log[j]) = <<StopMsg>>
            /\ NotesBy(log[j]) = <<TimeoutNote>>
            /\ StopsIn(SentBetween(log[i].sentFrom, log[j].sentTo)) = 1
            /\ ErrorsIn(NotesBetween(log[i].notesFrom, log[j].notesTo)) = 1

\* Witness of C2: a request whose watchdog expired unanswered
C2_Witness ==
    /\ Len(log) >= 2
    /\ TimedOut(1, 2)
    /\ controlState = "Idle"

\* The request whose watchdog expires in log[j]: watchdogs expire in the order
\* in which the requests armed them
RequestOf(j) ==
    CHOOSE i \in 1..j :
        /\ IsRequest(log[i])
        /\ Cardinality({x \in 1..i : IsRequest(log[x])})
             = Cardinality({x \in 1..j : IsWatchdog(log[x])})

\* C3 (as claimed): once a request has been acknowledged, the expiry of its
\* watchdog sends nothing, notifies nothing and changes no state.
C3_AckedWatchdogIsInert ==
    \A j \in DOMAIN log :
        (/\ IsWatchdog(log[j])
         /\ \E k \in (RequestOf(j) + 1)..(j - 1) : IsAck(log[k]))
        => /\ SentBy(log[j]) = <<>>
           /\ NotesBy(log[j]) = <<>>
           /\ log[j].post = log[j].pre

\* The handler was one run of stopDataRecording and nothing else
IsStopOnly(e) == e.ev = "toggle_stop"

\* The handler was one run of stopDataRecording followed by a notification
IsStopAndNotify(e) == IsWatchdog(e) /\ ~e.pre.isRecording

\* C4: stopDataRecording, in whatever state it is called, stops the recorder,
\* sets the recording state to Idle at once and sends exactly one
\* stop-recording message.
C4_StopIsUnconditional ==
    \A j \in DOMAIN log :
        (IsStopOnly(log[j]) \/ IsStopAndNotify(log[j])) =>
            /\ ~log[j].post.isRecording
            /\ log[j].post.controlState = "Idle"
            /\ log[j].post.commentsState = "Idle"
            /\ log[j].post.mainState = "Idle"
            /\ SentBy(log[j]) = <<StopMsg>>

\* Witness of C4: stopDataRecording has run in Recording and in Idle
C4_Witness ==
    /\ \E j \in DOMAIN log : IsStopOnly(log[j]) /\ log[j].pre.controlState = "Recording"
    /\ \E j \in DOMAIN log : IsStopAndNotify(log[j]) /\ log[j].pre.controlState = "Idle"

\* C5 (as claimed): a start-recording message whose recorder start fails
\* leaves the session in Idle, raises one error notification and sends one
\* stop-recording message.
C5_FailedStartEndsIdle ==
    \A j \in DOMAIN log :
        IsFailedStart(log[j]) =>
            /\ log[j].post.controlState = "Idle"
            /\ ErrorsIn(NotesBy(log[j])) = 1
            /\ StopsIn(SentBy(log[j])) = 1


---------------------------------------------------------------------------
\* Properties of the VideoStreamer (checked under SpecStreamer)
---------------------------------------------------------------------------
Freeing == LogInfo("Freeing pipeline")
CountOf(q, c) == Len(SelectSeq(q, LAMBDA x : x = c))
IsStart(e) == e.ev \in {"stream", "streamStereo"}
IsFailure(e) == e.ev = "busMessage" /\ e.msg.type \in {"Eos", "Error"}
DetailOf(m) == IF m.type = "Eos" THEN EosDetail ELSE m.detail

\* C6: stop() with an active pipeline tears it down once (and reports ready);
\* stop() with no active pipeline, such as a second stop() in a row, tears
\* nothing down and calls nothing on the parent.
C6_StopIdempotent ==
    /\ \A j \in DOMAIN vlog :
          vlog[j].ev = "stop" =>
             /\ vlog[j].post.pipeline = NullPipeline
             /\ vlog[j].post.playing = vlog[j].pre.playing \ {vlog[j].pre.pipeline}
             /\ IF vlog[j].pre.pipeline # NullPipeline
                THEN vlog[j].calls = <<Freeing, Ready>>
                ELSE vlog[j].calls = <<>> /\ vlog[j].post = vlog[j].pre
    /\ \A j \in DOMAIN vlog :
          (j > 1 /\ vlog[j - 1].ev = "stop" /\ vlog[j].ev = "stop") =>
             /\ vlog[j].calls = <<>>
             /\ vlog[j].post = vlog[j].pre
             /\ CountOf(vlog[j - 1].calls \o vlog[j].calls, Freeing) <= 1

\* Witness of C6: stop() of an active pipeline followed at once by stop()
C6_Witness ==
    \E j \in DOMAIN vlog :
        /\ j > 1
        /\ vlog[j - 1].ev = "stop" /\ vlog[j - 1].pre.pipeline # NullPipeline
        /\ vlog[j].ev = "stop"

\* C7: stream() and streamStereo() tear an active pipeline down before they
\* create the new one: the child never owns more than one pipeline, and each
\* call reports onChildStreaming exactly once, after the old one's teardown.
C7_RestartKeepsOnePipeline ==
    /\ Cardinality(playing) <= 1
    /\ playing \subseteq {pipeline}
    /\ connected \subseteq {pipeline}
    /\ \A j \in DOMAIN vlog :
          IsStart(vlog[j]) =>
             LET c == vlog[j].calls
             IN  /\ CountOf(c, Streaming) = 1
                 /\ c[Len(c)] = Streaming
                 /\ vlog[j].post.pipeline # NullPipeline
                 /\ vlog[j].post.pipeline # vlog[j].pre.pipeline
                 /\ vlog[j].post.playing = {vlog[j].post.pipeline}
                 /\ (vlog[j].pre.pipeline # NullPipeline) <=> (c[1] = Freeing)
                 /\ CountOf(c, Freeing) <= 1
                 /\ CountOf(c, Ready) = 0

\* Witness of C7: a stream call made while a pipeline was playing
C7_Witness ==
    \E j \in DOMAIN vlog :
        /\ IsStart(vlog[j])
        /\ vlog[j].pre.pipeline # NullPipeline
        /\ vlog[j].pre.pipeline \in vlog[j].pre.playing

\* C8: an error or end-of-stream of the streaming pipeline is reported by
\* exactly one onChildError carrying the detail, the pipeline is torn down
\* exactly once, no other onChildError is ever made for that pipeline, and a
\* stop() that follows tears nothing down.
C8_FailureReportedOnce ==
    /\ \A j \in DOMAIN vlog :
          IsFailure(vlog[j]) =>
             /\ vlog[j].calls = <<ChildError(DetailOf(vlog[j].msg)), Freeing, Ready>>
             /\ vlog[j].pre.pipeline = vlog[j].msg.pipeline
             /\ vlog[j].msg.pipeline \notin vlog[j].reportedBefore
             /\ vlog[j].post.pipeline = NullPipeline
             /\ vlog[j].post.playing = {}
             /\ (j < Len(vlog) /\ vlog[j + 1].ev = "stop") => vlog[j + 1].calls = <<>>
    /\ \A j \in DOMAIN vlog :
          ErrorCallsIn(vlog[j].calls) > 0 => IsFailure(vlog[j])

\* Witness of C8: an error dispatched while a second message of the same
\* pipeline was pending, then stop()
C8_Witness ==
    \E j \in DOMAIN vlog :
        /\ j > 1
        /\ IsFailure(vlog[j - 1])
        /\ Len(vlog[j - 1].pre.bus) = 2
        /\ vlog[j].ev = "stop"

\* C9 (as claimed): once the process has been stopped or has failed, it never
\* reports onChildStreaming again.
C9_StoppedIsTerminal ==
    \A j \in DOMAIN vlog :
        vlog[j].tornDownBefore => CountOf(vlog[j].calls, Streaming) = 0

\* C9 (amended): each pipeline is torn down for good, and the process reports
\* onChildStreaming only from a stream()/streamStereo() call, for a pipeline
\* that did not exist before the call.
C9_PipelineTornDownForGood ==
    /\ \A j \in DOMAIN vlog :
          CountOf(vlog[j].calls, Streaming) > 0 =>
             /\ IsStart(vlog[j])
             /\ vlog[j].post.pipeline > vlog[j].pre.created
             /\ vlog[j].post.playing = {vlog[j].post.pipeline}
    /\ \A j \in DOMAIN vlog :
          \A p \in vlog[j].post.playing \ vlog[j].pre.playing : p > vlog[j].pre.created
    /\ \A j \in DOMAIN vlog :
          ((vlog[j].ev = "stop" /\ vlog[j].pre.pipeline # NullPipeline) \/ IsFailure(vlog[j]))
             => /\ vlog[j].post.playing = {}
                /\ CountOf(vlog[j].calls, Streaming) = 0

\* Witness of C9: the process streams again after a stop() or a failure
C9_Witness ==
    \E j \in DOMAIN vlog :
        /\ vlog[j].tornDownBefore
        /\ IsStart(vlog[j])
        /\ pipeline = vlog[j].post.pipeline
        /\ pipeline \in playing

\* C10: bus messages still pending from a pipeline when it is torn down (by
\* stop() or by a restart) are discarded: every message dispatched to
\* onBusMessage comes from the pipeline the child then owns, so no
\* onChildError or onChildReady is made for a torn-down pipeline and a
\* pipeline started afterwards is not torn down by it.
C10_StaleBusMessagesDiscarded ==
    /\ \A x \in DOMAIN bus : bus[x].pipeline = pipeline /\ bus[x].pipeline \in connected
    /\ \A j \in DOMAIN vlog :
          (vlog[j].ev \in {"stop", "stream", "streamStereo", "destroy"}) =>
             \A x \in DOMAIN vlog[j].post.bus :
                 vlog[j].post.bus[x].pipeline # vlog[j].pre.pipeline
    /\ \A j \in DOMAIN vlog :
          vlog[j].ev = "busMessage" =>
             /\ vlog[j].msg.pipeline = vlog[j].pre.pipeline
             /\ vlog[j].msg.pipeline \in vlog[j].pre.playing

\* Witness of C10: a pipeline torn down with a failure pending on its bus,
\* then a pipeline started that is still playing
C10_Witness ==
    \E j \in DOMAIN vlog :
        /\ j > 1
        /\ vlog[j - 1].ev \in {"stop", "stream", "streamStereo"}
        /\ \E x \in DOMAIN vlog[j - 1].pre.bus :
              vlog[j - 1].pre.bus[x].type \in {"Eos", "Error"}
        /\ IsStart(vlog[j]) \/ vlog[j].ev = "busMessage"
        /\ pipeline # NullPipeline
        /\ pipeline \in playing

StartsIn(q) == Len(SelectSeq(q, LAMBDA m : m.tag = "StartDataRecording"))

\* C17: each startDataRecording call records the clock reading as the start
\* time, sends exactly one message, the start-recording message carrying that
\* time, sets the three windows to Waiting and arms one watchdog; no other
\* handler (watchdog expiry, received message, stop) sends a start message.
C17_RequestSendsOneStart ==
    \A j \in DOMAIN log :
        /\ IsRequest(log[j]) =>
              /\ log[j].startTimeTo = log[j].msg.time
              /\ SentBy(log[j]) = <<StartMsg(log[j].msg.time)>>
              /\ log[j].post.controlState = "Waiting"
              /\ log[j].post.commentsState = "Waiting"
              /\ log[j].post.mainState = "Waiting"
              /\ log[j].watchdogsTo = log[j].watchdogsFrom + 1
              /\ NotesBy(log[j]) = <<>>
        /\ ~IsRequest(log[j]) => StartsIn(SentBy(log[j])) = 0

\* Witness of C17: a request has taken a clock reading other than the start
\* time it found, and its watchdog has expired with the session Waiting
C17_Witness ==
    \E i \in DOMAIN log : \E j \in DOMAIN log :
        /\ TimedOut(i, j)
        /\ log[i].startTimeFrom # log[i].msg.time

\* C18: the recorder records only if a start-recording message has been
\* received and it has not been stopped since; a request, a watchdog expiry
\* or a toggle never starts it.
C18_RecorderStartedByMessageOnly ==
    /\ \A j \in DOMAIN log :
          (~log[j].pre.isRecording /\ log[j].post.isRecording) => IsAck(log[j])
    /\ isRecording =>
          \E k \in DOMAIN log :
              /\ IsStartMessage(log[k])
              /\ \A x \in k..Len(log) : log[x].post.isRecording

\* Witness of C18: the recorder records after a start message; before, a
\* request, and a watchdog expiry in Waiting, had left it stopped
C18_Witness ==
    /\ isRecording
    /\ \E i \in DOMAIN log : \E j \in DOMAIN log : \E k \in DOMAIN log :
          /\ i < j /\ j < k
          /\ IsRequest(log[i]) /\ ~log[i].post.isRecording
          /\ IsWatchdog(log[j]) /\ ~log[j].post.isRecording
          /\ IsAck(log[k])

\* The request whose watchdog is the one that expired at log[j] is the latest
\* request made before log[j]
OwnWatchdog(j) == \A x \in (RequestOf(j) + 1)..(j - 1) : ~IsRequest(log[x])

\* C19 (as claimed): at most one watchdog is armed at any time, and a
\* watchdog armed for an earlier request never forces the session of a later
\* request to Idle.
C19_AtMostOneWatchdog ==
    /\ watchdogs <= 1
    /\ \A j \in DOMAIN log :
          (IsWatchdog(log[j]) /\ log[j].pre.controlState # "Idle"
           /\ log[j].post.controlState = "Idle") => OwnWatchdog(j)

\* C20 (as claimed): after any handler has returned, the Recording state is
\* shown only while the recorder records; it is not shown after a recorder
\* start that failed.
C20_RecordingShownIsRecording ==
    /\ controlState = "Recording" => isRecording
    /\ commentsState = "Recording" => isRecording

\* C21 (as claimed): whenever a handler has returned, the control window,
\* the comments window and the main window have been given the same
\* recording state.
C21_WindowsAgree ==
    /\ controlState = commentsState
    /\ commentsState = mainState

\* C16 (as claimed): whenever the session is Waiting it eventually is
\* Recording or Idle, also when no message is ever received (every frame lost,
\* the rover never answers).
C16_WaitingEnds ==
    (controlState = "Waiting") ~> (controlState \in {"Recording", "Idle"})


---------------------------------------------------------------------------
\* Properties of the message router (checked under SpecRouter)
---------------------------------------------------------------------------
\* The tags the switch of onMainChannelMessageReceived has a case for
HandledTags == {"RoverStatusUpdate", "RoverMediaServerError", "RoverGpsUpdate",
                "RoverDriveOverrideStart", "RoverDriveOverrideEnd", "SensorUpdate",
                "StartDataRecording"}

\* The frame of each message put on the wire, by the value of the first
\* enumerator
FrameOf == [base \in TagBases |-> [m \in WireMessages |-> encode(base, m)]]

\* The handler was given the whole frame of the message m
IsFrameOf(e, m) == e.ev = "frame" /\ e.msg.frame = FrameOf[e.msg.build.tagBase][m]

\* The handler changed nothing but what it may have notified
OnlyNotified(e) ==
    /\ e.post = e.pre
    /\ e.sentTo = e.sentFrom
    /\ e.forwardedTo = e.forwardedFrom
    /\ e.watchdogsTo = e.watchdogsFrom
    /\ e.startTimeTo = e.startTimeFrom
    /\ e.recorderTo = e.recorderFrom
    /\ e.settingsTo = e.settingsFrom
    /\ e.playerTo = e.playerFrom
    /\ e.exitCode = 0

\* The handler had no effect at all
Dropped(e) == OnlyNotified(e) /\ e.notesTo = e.notesFrom

\* C11: a received message whose tag the router has no case for is dropped:
\* the recording state of the windows, the recorder, the displayed rover
\* status are as before, no message is sent, no notification is raised.
C11_UnhandledTagDropped ==
    \A i \in DOMAIN log : \A m \in WireMessages :
        (IsFrameOf(log[i], m) /\ m.tag \notin HandledTags) => Dropped(log[i])

\* Witness of C11: a tag outside the enumeration has been received while a
\* request was waiting for its acknowledgment
C11_Witness ==
    \E i \in DOMAIN log :
        /\ IsFrameOf(log[i], [tag |-> "Unknown", code |-> 99])
        /\ log[i].pre.controlState = "Waiting"

\* The least number of bytes of a message of the tag: the tag and its fields
\* (an empty string or byte array is its length alone)
MinSize(tag) ==
    CASE tag = "RoverStatusUpdate" -> 4 + 1
      [] tag = "RoverMediaServerError" -> 4 + 4 + 4
      [] tag = "RoverGpsUpdate" -> 4 + 1
      [] tag = "SensorUpdate" -> 4 + 4
      [] tag = "StartDataRecording" -> 4 + 8
      [] OTHER -> 4

TooShort(base, f) ==
    Len(f) < 4 \/ Len(f) < MinSize(TagOf(base, valueOf(SubSeq(f, 1, 4))))

ShortFrames == [base \in TagBases |-> {f \in Frames[base] : TooShort(base, f)}]

\* C12 (as claimed): a received buffer shorter than the least size of its tag,
\* or too short for the tag, is dropped before any effect of a handler: no
\* notification, no status change, no call of the recorder or a collaborator.
C12_ShortFrameDropped ==
    \A i \in DOMAIN log :
        (/\ log[i].ev = "frame"
         /\ log[i].msg.frame \in ShortFrames[log[i].msg.build.tagBase]) => Dropped(log[i])

\* C13: a received media-error message raises exactly one notification, the
\* audio error if its media id is the audio client's and the video error
\* otherwise, and changes nothing else.
C13_MediaErrorRouted ==
    \A i \in DOMAIN log : \A m \in WireMessages :
        (IsFrameOf(log[i], m) /\ m.tag = "RoverMediaServerError") =>
            /\ NotesBy(log[i]) =
                  <<[type |-> "Warning",
                     title |-> IF m.mediaId = log[i].msg.build.audioMediaId
                               THEN "Audio Stream Error"
                               ELSE "Video Stream Error"]>>
            /\ OnlyNotified(log[i])

\* Witness of C13: an error of the audio stream has been received and
\* notified while a request was waiting, in a build whose audio media id is
\* not 0
C13_Witness ==
    \E i \in DOMAIN log : \E m \in WireMessages :
        /\ IsFrameOf(log[i], m) /\ m.tag = "RoverMediaServerError"
        /\ m.mediaId = log[i].msg.build.audioMediaId
        /\ m.mediaId # 0
        /\ log[i].pre.controlState = "Waiting"
        /\ notes[Len(notes)].title = "Audio Stream Error"

\* The messages the controller writes: sendStartRecordCommandToRover,
\* sendStopRecordCommandToRover, stopDataRecording
Encoded == {StartMsg(t) : t \in Times} \cup {StopMsg}

\* C14 (as claimed): what the controller encodes is decoded to the same tag
\* and the same fields; the start time of a start-recording message is what
\* the start-recording case gets and starts the recorder with.
C14_RoundTrip ==
    \A i \in DOMAIN log : \A m \in Encoded :
        IsFrameOf(log[i], m) =>
            /\ log[i].msg.decoded = m
            /\ m.tag = "StartDataRecording" => log[i].recorderTo = <<m.time>>


---------------------------------------------------------------------------
\* Properties of the two processes' lifetime (checked under SpecLifecycle)
---------------------------------------------------------------------------
\* C15: after startup no received frame and no pipeline error or end of
\* stream ends a process: the controller has exited only from its startup
\* (before any handler was connected), the child only from its constructor
\* (before any slot or bus callback ran).
C15_ExitOnlyAtStartup ==
    /\ exitCode # 0 => (~started /\ log = <<>>)
    /\ \A i \in DOMAIN log : log[i].exitCode = 0
    /\ childExit # 0 => (~alive /\ vsteps = 0 /\ vlog = <<>> /\ calls = <<>>)
    /\ \A j \in DOMAIN vlog : vlog[j].ev = "busMessage" => (alive /\ childExit = 0)

\* Witness of C15: the controller has started, and the child, constructed,
\* has had a pipeline error or end of stream dispatched to onBusMessage and
\* has reported it
C15_Witness ==
    /\ started /\ exitCode = 0
    /\ alive /\ childExit = 0
    /\ \E j \in DOMAIN vlog :
          /\ vlog[j].ev = "busMessage"
          /\ vlog[j].msg.type \in {"Error", "Eos"}
          /\ ErrorCallsIn(vlog[j].calls) = 1


---------------------------------------------------------------------------
\* Properties of the calls the child makes on its parent (checked under
\* SpecChild)
---------------------------------------------------------------------------
\* The lifecycle events among the calls q (onChildLogInfo is not one)
LifecycleEvents(q) == SelectSeq(q, LAMBDA c : c.method # "onChildLogInfo")

\* C22: the events the child sends to its parent are well-formed. Nothing is
\* sent before the constructor, which sends onChildReady alone; a pipeline
\* error or end of stream sends onChildError and then one onChildReady; stop()
\* sends one onChildReady with an active pipeline (and nothing without); a
\* start or restart sends onChildStreaming and no onChildReady; destruction
\* sends no event.
C22_EventsWellFormed ==
    /\ ~constructed => (calls = <<>> /\ vlog = <<>>)
    /\ (alive /\ vsteps = 0) => calls = <<Ready>>
    /\ \A j \in DOMAIN vlog :
          LET events == LifecycleEvents(vlog[j].calls)
          IN  CASE IsFailure(vlog[j]) ->
                      events = <<ChildError(DetailOf(vlog[j].msg)), Ready>>
                [] vlog[j].ev = "stop" ->
                      events = IF vlog[j].pre.pipeline # NullPipeline THEN <<Ready>>
                               ELSE <<>>
                [] IsStart(vlog[j]) -> events = <<Streaming>>
                [] OTHER -> events = <<>>

\* Witness of C22: the child, constructed in this behaviour, has restarted an
\* active pipeline and then handled that pipeline's error or end of stream
C22_Witness ==
    /\ constructed /\ alive
    /\ Len(vlog) = 2
    /\ IsStart(vlog[1]) /\ vlog[1].pre.pipeline # NullPipeline
    /\ IsFailure(vlog[2])


---------------------------------------------------------------------------
\* Properties of the media handlers (checked under SpecMedia)
---------------------------------------------------------------------------
IsSettings(e) == e.ev = "settings"
IsAudio(e) == e.ev = "audio"
IsPlaybackEvent(e) == IsAudio(e) /\ e.msg.state \in {"Streaming", "Connecting"}

\* The media commands that the settings st ask for
VideoCommands(st) == IF st.enableVideo THEN <<>> ELSE <<StopCamerasMsg>>
AudioCommands(st) ==
    IF ~st.enableAudio THEN <<DeactivateAudioMsg>>
    ELSE IF st.audioUsable THEN <<ActivateAudioMsg>>
    ELSE <<>>

\* C23: applying settings sends the media commands that the settings in
\* force decide, and no other message: one stop-all-cameras message iff video
\* is disabled; one deactivate-audio message with audio disabled, one
\* activate-audio message with audio enabled and a useable format, no audio
\* message with audio enabled and a format that is not useable. The recording
\* state, the recorder and the watchdogs are as before; nothing is notified.
C23_SettingsDecideCommands ==
    \A j \in DOMAIN log :
        IsSettings(log[j]) =>
            /\ SentBy(log[j]) = VideoCommands(log[j].settingsTo)
                                   \o AudioCommands(log[j].settingsTo)
            /\ log[j].post = log[j].pre
            /\ log[j].watchdogsTo = log[j].watchdogsFrom
            /\ log[j].recorderTo = log[j].recorderFrom
            /\ log[j].notesTo = log[j].notesFrom

\* Witness of C23: while a request was waiting, settings with video disabled
\* and audio enabled in a format that is not useable have been applied, and
\* settings with audio disabled
C23_Witness ==
    /\ \E j \in DOMAIN log :
          /\ IsSettings(log[j])
          /\ log[j].pre.controlState = "Waiting"
          /\ ~log[j].settingsTo.enableVideo
          /\ log[j].settingsTo.enableAudio /\ ~log[j].settingsTo.audioUsable
    /\ \E j \in DOMAIN log : IsSettings(log[j]) /\ ~log[j].settingsTo.enableAudio

\* C24 (as claimed): on a Streaming event of the audio client the audio
\* player is started on the local bounce address and enableAudio becomes true;
\* on a Connecting event the player is stopped and enableAudio becomes false;
\* on any other state the player and the settings are as before. Hence
\* enableAudio is true iff the latest Streaming or Connecting event was
\* Streaming (the operator not having applied settings since).
C24_AudioEventsDrivePlayback ==
    /\ \A j \in DOMAIN log :
          IsAudio(log[j]) =>
             CASE log[j].msg.state = "Streaming" ->
                     /\ log[j].playerTo = PlayingFrom("LocalHost")
                     /\ log[j].settingsTo = [log[j].settingsFrom EXCEPT !.enableAudio = TRUE]
               [] log[j].msg.state = "Connecting" ->
                     /\ log[j].playerTo = Silent
                     /\ log[j].settingsTo = [log[j].settingsFrom EXCEPT !.enableAudio = FALSE]
               [] OTHER ->
                     /\ log[j].playerTo = log[j].playerFrom
                     /\ log[j].settingsTo = log[j].settingsFrom
    /\ \A j \in DOMAIN log :
          (/\ IsPlaybackEvent(log[j])
           /\ \A x \in (j + 1)..Len(log) : ~IsPlaybackEvent(log[x]) /\ ~IsSettings(log[x]))
          => (/\ settings.enableAudio = (log[j].msg.state = "Streaming")
              /\ audioPlayer.playing = (log[j].msg.state = "Streaming"))

=============================================================================
